---- MODULE Spec2Model ----
(***************************************************************************)
(* A model of the GridFS bucket of zdpgo_mongo (mongo/gridfs/bucket.go).   *)
(*                                                                         *)
(* The document store is two collections: filesColl (one metadata document *)
(* per file) and chunksColl (the chunk documents).  Every call to the      *)
(* store may fail with a store error.  A Bucket holds its chunk size, the  *)
(* first-write flag and the shared read buffer.  An upload runs in steps   *)
(* (open, read the source, write to the stream, close); the other          *)
(* operations are single calls.  The upload stream and the download stream *)
(* (upload_stream.go, download_stream.go) follow sections 4.2 and 4.3 of   *)
(* the specification.  The bucket's deadlines are never set here, so every *)
(* context is the background context.                                      *)
(***************************************************************************)
EXTENDS Integers, Sequences, FiniteSets, TLC

\* ------------------------------------------------------------------ bounds
MaxChunkSize == 2
MaxUploads == 1

\* ------------------------------------------------------------- vocabulary
Names == {"a", "b"}
Nil == "nil"
StoreError == "StoreError"
SourceError == "SourceError"
MetadataError == "MetadataError"
DecodeError == "DecodeError"
CorruptFileError == "CorruptFileError"
StreamClosedError == "ErrStreamClosed"
DeadlineError == "DeadlineError"
EOF == "EOF"

ErrFileNotFound == "ErrFileNotFound"
ErrMissingChunkSize == "ErrMissingChunkSize"

Min(a, b) == IF a < b THEN a ELSE b

\* The name options: a revision, a 32-bit integer, that is set or is not.
Revision(r) == [set |-> TRUE, revision |-> r]
NoRevision == [set |-> FALSE, revision |-> 0]

\* The bytes a source of length len hands to upload number id: every position
\* of every upload holds a different value.
SourceBytes(id, len) == [i \in 1..len |-> (40 * id + i) % 256]

\* The source lengths of an upload with chunk size c.
Sizes(c) == {0, 1, c - 1, c, c + 1, 10 * c, 10 * c + 7}
ShortSizes(c) == {0, 1, c + 1}
SourceLens(short, c) == IF short THEN ShortSizes(c) ELSE Sizes(c)

\* ------------------------------------------------------------------ state
VARIABLES
    filesColl,       \* the metadata documents of <name>.files
    chunksColl,      \* the chunk documents of <name>.chunks
    filesIdx,        \* the key documents of the indexes on filesColl
    chunksIdx,       \* the key documents of the indexes on chunksColl
    chunkSize,       \* Bucket.chunkSize
    firstWriteDone,  \* Bucket.firstWriteDone
    readBuf,         \* Bucket.readBuf
    nextID,          \* the next object id primitive.NewObjectID() returns
    clock,           \* the store's time, read when a metadata document is made
    ixLog,           \* the index calls the bucket has made, counted
    up,              \* up[p]: the UploadFromStream call of caller p
    res              \* what the last Delete, download or open returned

vars == <<filesColl, chunksColl, filesIdx, chunksIdx, chunkSize, firstWriteDone,
          readBuf, nextID, clock, ixLog, up, res>>

Procs == {1, 2}

\* ------------------------------------------------------------- documents
\* A files collection document.  hasChunkSize is whether the chunkSize field
\* is there; decodable is whether cursor.Decode reads it into a File.
FileDoc(id, length, cs, date, filename, metadata) ==
    [id |-> id, length |-> length, chunkSize |-> cs, hasChunkSize |-> TRUE,
     uploadDate |-> date, filename |-> filename, metadata |-> metadata,
     decodable |-> TRUE]

ChunkDoc(id, n, data) == [files_id |-> id, n |-> n, data |-> data]

ChunksOf(id) == {c \in chunksColl : c.files_id = id}
FilesWithID(id) == {f \in filesColl : f.id = id}

\* Documents written by another client before this bucket was made: a file of
\* length 0 and a file of length 2 without the chunkSize field, a file whose
\* document does not decode, and a whole file; the first two share an upload
\* date.
LegacyFiles ==
    { [id |-> 91, length |-> 0, chunkSize |-> 0, hasChunkSize |-> FALSE,
       uploadDate |-> -3, filename |-> "b", metadata |-> "none", decodable |-> TRUE],
      [id |-> 92, length |-> 2, chunkSize |-> 0, hasChunkSize |-> FALSE,
       uploadDate |-> -3, filename |-> "b", metadata |-> "none", decodable |-> TRUE],
      [id |-> 93, length |-> 1, chunkSize |-> 1, hasChunkSize |-> TRUE,
       uploadDate |-> -2, filename |-> "a", metadata |-> "none", decodable |-> FALSE],
      [id |-> 94, length |-> 3, chunkSize |-> 2, hasChunkSize |-> TRUE,
       uploadDate |-> -1, filename |-> "a", metadata |-> "doc", decodable |-> TRUE] }

LegacyChunks ==
    { ChunkDoc(92, 0, <<7, 8>>), ChunkDoc(93, 0, <<9>>),
      ChunkDoc(94, 0, <<1, 2>>), ChunkDoc(94, 1, <<3>>) }

LegacyIDs == {f.id : f \in LegacyFiles}
UploadIDs == 1..MaxUploads
FileIDs == UploadIDs \cup LegacyIDs

\* ---------------------------------------------------------- index manager
\* One element of an index key document.  A double holds its value in halves
\* (val = 3 is 1.5), the other numeric types hold it as it is.
Elem(k, t, v) == [key |-> k, type |-> t, val |-> v]

filesModel ==
    [key |-> <<Elem("filename", "int32", 1), Elem("uploadDate", "int32", 1)>>,
     unique |-> FALSE]

chunksModel ==
    [key |-> <<Elem("files_id", "int32", 1), Elem("n", "int32", 1)>>,
     unique |-> TRUE]

\* bsoncore.Value.AsInt64OK: the value as an integer, when it is a number
\* that is one.
AsInt64OK(v) ==
    CASE v.type \in {"int32", "int64"} -> [ok |-> TRUE, i |-> v.val]
      [] v.type = "double" -> [ok |-> v.val % 2 = 0, i |-> v.val \div 2]
      [] OTHER -> [ok |-> FALSE, i |-> 0]

\* numericalIndexDocsEqual that compares the encoded documents only.
numericalIndexDocsEqualBytes(expected, actual) == expected = actual

\* Key documents are equal when they are the same bytes, or have the same
\* keys in the same order with values that are the same integer.
numericalIndexDocsEqual(expected, actual) ==
    IF expected = actual THEN TRUE
    ELSE IF Len(actual) # Len(expected) THEN FALSE
    ELSE \A idx \in 1..Len(expected) :
            /\ actual[idx].key = expected[idx].key
            /\ AsInt64OK(actual[idx]).ok
            /\ AsInt64OK(expected[idx]).ok
            /\ AsInt64OK(actual[idx]).i = AsInt64OK(expected[idx]).i

\* Indexes another client made before this bucket: key documents that say
\* what the model says in another encoding, and key documents that say
\* something else.
Listed(key) == [key |-> key, unique |-> FALSE, name |-> "custom"]

ListedFilesKeys ==
    { <<Elem("filename", "int32", 1), Elem("uploadDate", "int32", 1)>>,
      <<Elem("filename", "int64", 1), Elem("uploadDate", "int64", 1)>>,
      <<Elem("filename", "double", 2), Elem("uploadDate", "int32", 1)>>,
      <<Elem("filename", "double", 3), Elem("uploadDate", "int32", 1)>>,
      <<Elem("filename", "int32", 1), Elem("uploadDate", "int32", -1)>>,
      <<Elem("filename", "int32", 1), Elem("length", "int32", 1)>>,
      <<Elem("uploadDate", "int32", 1), Elem("filename", "int32", 1)>>,
      <<Elem("filename", "int32", 1)>>,
      <<Elem("filename", "int32", 1), Elem("uploadDate", "int32", 1),
        Elem("length", "int32", 1)>>,
      <<Elem("filename", "string", 1), Elem("uploadDate", "int32", 1)>> }

ListedChunksKeys ==
    { <<Elem("files_id", "int64", 1), Elem("n", "double", 2)>>,
      <<Elem("files_id", "int32", 1), Elem("n", "int32", -1)>> }

ListedIndexes ==
    [files : {{}} \cup {{Listed(k)} : k \in ListedFilesKeys},
     chunks : {{}} \cup {{Listed(k)} : k \in ListedChunksKeys}]

NoIndexes == [files |-> {}, chunks |-> {}]

\* The index the store holds after iv.CreateOne(model): the store names it.
CreatedIndex(model) == [key |-> model.key, unique |-> model.unique, name |-> "default"]

\* createNumericalIndexIfNotExists that does not look at the listed indexes.
createNumericalIndexAlways(idx, model, listFails, createFails) ==
    IF listFails
    THEN [err |-> StoreError, idx |-> idx, issued |-> FALSE, created |-> FALSE]
    ELSE IF createFails
    THEN [err |-> StoreError, idx |-> idx, issued |-> TRUE, created |-> FALSE]
    ELSE [err |-> Nil, idx |-> idx \cup {CreatedIndex(model)},
          issued |-> TRUE, created |-> TRUE]

\* iv.List, the comparison of every listed key document, then iv.CreateOne.
\* issued is whether CreateOne was called, created whether it made the index.
createNumericalIndexIfNotExists(idx, model, listFails, createFails) ==
    IF listFails
    THEN [err |-> StoreError, idx |-> idx, issued |-> FALSE, created |-> FALSE]
    ELSE IF \E i \in idx : numericalIndexDocsEqual(model.key, i.key)
    THEN [err |-> Nil, idx |-> idx, issued |-> FALSE, created |-> FALSE]
    ELSE IF createFails
    THEN [err |-> StoreError, idx |-> idx, issued |-> TRUE, created |-> FALSE]
    ELSE [err |-> Nil, idx |-> idx \cup {CreatedIndex(model)},
          issued |-> TRUE, created |-> TRUE]

\* The store calls of createIndexes that may fail, in order.
IndexFaults == {"none", "findOne", "listFiles", "createFiles", "listChunks", "createChunks"}

\* The calls the bucket has made to provision indexes: FindOne on the files
\* collection, List and CreateOne on either collection, and the indexes
\* CreateOne made.
NoCalls ==
    [findOne |-> 0, listFiles |-> 0, createFiles |-> 0, createdFiles |-> 0,
     listChunks |-> 0, createChunks |-> 0, createdChunks |-> 0]

Count(b) == IF b THEN 1 ELSE 0

\* createIndexes that goes on to the indexes when the files collection holds
\* a document.
createIndexesAnyStore(fault) ==
    IF fault = "findOne"
    THEN [err |-> StoreError, files |-> filesIdx, chunks |-> chunksIdx,
          log |-> [ixLog EXCEPT !.findOne = @ + 1]]
    ELSE LET f == createNumericalIndexIfNotExists(filesIdx, filesModel,
                        fault = "listFiles", fault = "createFiles")
             c == createNumericalIndexIfNotExists(chunksIdx, chunksModel,
                        fault = "listChunks", fault = "createChunks")
             logF == [ixLog EXCEPT !.findOne = @ + 1, !.listFiles = @ + 1,
                                   !.createFiles = @ + Count(f.issued),
                                   !.createdFiles = @ + Count(f.created)]
         IN IF f.err # Nil
            THEN [err |-> f.err, files |-> f.idx, chunks |-> chunksIdx, log |-> logF]
            ELSE [err |-> c.err, files |-> f.idx, chunks |-> c.idx,
                  log |-> [logF EXCEPT !.listChunks = @ + 1,
                                       !.createChunks = @ + Count(c.issued),
                                       !.createdChunks = @ + Count(c.created)]]

\* createIndexes: log is ixLog with the calls of this run added.
createIndexes(fault) ==
    IF fault = "findOne"
    THEN [err |-> StoreError, files |-> filesIdx, chunks |-> chunksIdx,
          log |-> [ixLog EXCEPT !.findOne = @ + 1]]
    ELSE IF filesColl # {}
    THEN [err |-> Nil, files |-> filesIdx, chunks |-> chunksIdx,
          log |-> [ixLog EXCEPT !.findOne = @ + 1]]
    ELSE LET f == createNumericalIndexIfNotExists(filesIdx, filesModel,
                        fault = "listFiles", fault = "createFiles")
             c == createNumericalIndexIfNotExists(chunksIdx, chunksModel,
                        fault = "listChunks", fault = "createChunks")
             logF == [ixLog EXCEPT !.findOne = @ + 1, !.listFiles = @ + 1,
                                   !.createFiles = @ + Count(f.issued),
                                   !.createdFiles = @ + Count(f.created)]
         IN IF f.err # Nil
            THEN [err |-> f.err, files |-> f.idx, chunks |-> chunksIdx, log |-> logF]
            ELSE [err |-> c.err, files |-> f.idx, chunks |-> c.idx,
                  log |-> [logF EXCEPT !.listChunks = @ + 1,
                                       !.createChunks = @ + Count(c.issued),
                                       !.createdChunks = @ + Count(c.created)]]

\* checkFirstWrite that sets the flag whatever createIndexes returned.
checkFirstWriteSetsFlag(fault) ==
    IF ~firstWriteDone
    THEN LET r == createIndexes(fault)
         IN [err |-> r.err, files |-> r.files, chunks |-> r.chunks,
             done |-> TRUE, log |-> r.log]
    ELSE [err |-> Nil, files |-> filesIdx, chunks |-> chunksIdx, done |-> TRUE,
          log |-> ixLog]

checkFirstWrite(fault) ==
    IF ~firstWriteDone
    THEN LET r == createIndexes(fault)
         IN [err |-> r.err, files |-> r.files, chunks |-> r.chunks,
             done |-> (r.err = Nil), log |-> r.log]
    ELSE [err |-> Nil, files |-> filesIdx, chunks |-> chunksIdx, done |-> TRUE,
          log |-> ixLog]

\* ---------------------------------------------------------- upload options
UploadOpts == [chunkSizeBytes : 0..MaxChunkSize, metadata : {"none", "bad"}]

\* chunkSizeBytes = 0 stands for an option that is not set.
parseUploadOptions(opts) ==
    [chunkSize |-> IF opts.chunkSizeBytes # 0 THEN opts.chunkSizeBytes ELSE chunkSize,
     metadata |-> opts.metadata,
     err |-> IF opts.metadata = "bad" THEN MetadataError ELSE Nil]

\* ----------------------------------------------------------- upload stream
newUploadStream(upload, fileID, filename) ==
    [state |-> "open", buf |-> <<>>, n |-> 0, length |-> 0,
     chunkSize |-> upload.chunkSize, fileID |-> fileID, filename |-> filename,
     metadata |-> upload.metadata]

NoStream ==
    [state |-> "none", buf |-> <<>>, n |-> 0, length |-> 0,
     chunkSize |-> 0, fileID |-> 0, filename |-> "", metadata |-> "none"]

\* UploadStream.Write: p is appended to the buffer; each time the buffer holds
\* chunkSize bytes it is inserted as chunk n.  okInserts is how many inserts
\* the store accepts before it fails one.  docs are the chunks inserted.
RECURSIVE usWrite(_, _, _)
usWrite(us, p, okInserts) ==
    IF us.state # "open" THEN [us |-> us, docs |-> {}, err |-> StreamClosedError]
    ELSE IF p = <<>> THEN [us |-> us, docs |-> {}, err |-> Nil]
    ELSE LET take == Min(us.chunkSize - Len(us.buf), Len(p))
             buf2 == us.buf \o SubSeq(p, 1, take)
             rest == SubSeq(p, take + 1, Len(p))
             us2  == [us EXCEPT !.buf = buf2, !.length = @ + take]
         IN IF Len(buf2) < us.chunkSize
            THEN [us |-> us2, docs |-> {}, err |-> Nil]
            ELSE IF okInserts = 0
            THEN [us |-> us2, docs |-> {}, err |-> StoreError]
            ELSE LET r == usWrite([us2 EXCEPT !.buf = <<>>, !.n = @ + 1],
                                  rest, okInserts - 1)
                 IN [r EXCEPT !.docs = @ \cup {ChunkDoc(us.fileID, us.n, buf2)}]

\* The number of chunk inserts Write(p) makes when none fails.
WriteInserts(us, p) == (Len(us.buf) + Len(p)) \div us.chunkSize

\* UploadStream.Close: the rest of the buffer is inserted as the last chunk,
\* then the metadata document.  fault is the store call that fails.
CloseFaults == {"none", "chunk", "file"}

\* A bug: the metadata document is inserted before the last chunk.
usCloseMetadataFirst(us, fault, now) ==
    IF us.state # "open"
    THEN [us |-> us, docs |-> {}, file |-> {}, err |-> StreamClosedError]
    ELSE LET file == {FileDoc(us.fileID, us.length, us.chunkSize, now,
                              us.filename, us.metadata)}
         IN IF fault = "file"
            THEN [us |-> us, docs |-> {}, file |-> {}, err |-> StoreError]
            ELSE IF us.buf # <<>> /\ fault = "chunk"
            THEN [us |-> us, docs |-> {}, file |-> file, err |-> StoreError]
            ELSE [us |-> [us EXCEPT !.state = "closed", !.buf = <<>>],
                  docs |-> IF us.buf # <<>>
                           THEN {ChunkDoc(us.fileID, us.n, us.buf)} ELSE {},
                  file |-> file, err |-> Nil]

usClose(us, fault, now) ==
    IF us.state # "open"
    THEN [us |-> us, docs |-> {}, file |-> {}, err |-> StreamClosedError]
    ELSE LET flush == us.buf # <<>>
             docs == IF flush THEN {ChunkDoc(us.fileID, us.n, us.buf)} ELSE {}
             us2 == IF flush THEN [us EXCEPT !.buf = <<>>, !.n = @ + 1] ELSE us
         IN IF flush /\ fault = "chunk"
            THEN [us |-> us, docs |-> {}, file |-> {}, err |-> StoreError]
            ELSE IF fault = "file"
            THEN [us |-> us2, docs |-> docs, file |-> {}, err |-> StoreError]
            ELSE [us |-> [us2 EXCEPT !.state = "closed"], docs |-> docs,
                  file |-> {FileDoc(us.fileID, us.length, us.chunkSize, now,
                                    us.filename, us.metadata)},
                  err |-> Nil]

\* UploadStream.Abort: the chunks of the file are deleted; the stream ends
\* aborted whether or not the store deleted them.
usAbort(us, deleteFails) ==
    IF us.state # "open"
    THEN [us |-> us, chunks |-> chunksColl, err |-> StreamClosedError]
    ELSE [us |-> [us EXCEPT !.state = "aborted", !.buf = <<>>],
          chunks |-> IF deleteFails THEN chunksColl
                     ELSE {c \in chunksColl : c.files_id # us.fileID},
          err |-> IF deleteFails THEN StoreError ELSE Nil]

\* ------------------------------------------------------------------- Init
NoUpload ==
    [pc |-> "idle", id |-> 0, len |-> 0, pos |-> 0, n |-> 0, rerr |-> Nil,
     us |-> NoStream, abortErr |-> "none", err |-> Nil]

NoRes ==
    [op |-> "none", id |-> 0, filename |-> "", nameOpts |-> NoRevision, err |-> Nil,
     stream |-> "none", hasCursor |-> FALSE, chunkQuery |-> FALSE,
     file |-> {}, sink |-> <<>>, copied |-> 0,
     findErr |-> "none", cursor |-> <<>>, updateErr |-> "none",
     skip |-> 0, order |-> 0,
     opened |-> FALSE,
     fileDelete |-> "none", DeletedCount |-> 0, chunkDelete |-> "none",
     deleted |-> 0]

\* A bucket made by NewBucket over a store that is empty or holds the legacy
\* documents.
InitWithIndexes(stores, indexes) ==
    /\ \E s \in stores :
          /\ filesColl = s.files
          /\ chunksColl = s.chunks
    /\ \E i \in indexes :
          /\ filesIdx = i.files
          /\ chunksIdx = i.chunks
    /\ ixLog = NoCalls
    /\ chunkSize \in 1..MaxChunkSize
    /\ firstWriteDone = FALSE
    /\ readBuf = [i \in 1..chunkSize |-> 0]
    /\ nextID = 1
    /\ clock = 0
    /\ up = [p \in Procs |-> NoUpload]
    /\ res = NoRes

InitWith(stores) == InitWithIndexes(stores, {NoIndexes})

EmptyStore == [files |-> {}, chunks |-> {}]
LegacyStore == [files |-> LegacyFiles, chunks |-> LegacyChunks]
\* Of those documents, the whole file alone.
WholeFileStore ==
    [files |-> {f \in LegacyFiles : f.id = 94},
     chunks |-> {c \in LegacyChunks : c.files_id = 94}]

Init == InitWith({EmptyStore, LegacyStore})

\* -------------------------------------------------------- UploadFromStream
\* No other call of the bucket is running.
Quiet == \A q \in Procs : up[q].pc \in {"idle", "done"}

\* The caller has no call running and holds no result of an earlier one.
Idle == Quiet /\ res.op = "none"

\* The call has returned err.  Of its locals the model keeps how far the
\* source was read, the stream's state and what the discarded Abort returned.
Finished(u, err) ==
    [NoUpload EXCEPT !.pc = "done", !.id = u.id, !.len = u.len, !.err = err,
                     !.pos = u.pos, !.abortErr = u.abortErr,
                     !.us = [NoStream EXCEPT !.state = u.us.state,
                                             !.fileID = u.us.fileID,
                                             !.chunkSize = u.us.chunkSize]]

\* b.readBuf once caller p has handed its bytes on.  No byte of the buffer is
\* read again before source.Read has written over it, unless another caller
\* still holds bytes in it: until then the buffer is as NewBucket made it.
Consumed(buf, p) ==
    IF \E q \in Procs \ {p} : up[q].pc = "write" THEN buf
    ELSE [i \in 1..Len(buf) |-> 0]

\* A bug: the error is returned and the stream is left as it is.
OnReadErrorNoAbort(us, deleteFails) ==
    [us |-> us, chunks |-> chunksColl, err |-> Nil]

\* _ = us.Abort(), when the source returned an error.
OnReadError(us, deleteFails) == usAbort(us, deleteFails)

\* A bug: the whole buffer is handed to the stream.
ReadSliceWhole(buf, n) == buf

\* b.readBuf[:n], the bytes handed to the stream.
ReadSlice(buf, n) == SubSeq(buf, 1, n)

\* A bug: the loop ends after its first read.
LastReadAlways(n, rerr) == TRUE

\* The loop of UploadFromStreamWithID ends after this read.
LastRead(n, rerr) == n = 0 \/ rerr = EOF

\* UploadFromStream up to its loop: a new object id, OpenUploadStreamWithID
\* (checkFirstWrite, parseUploadOptions, newUploadStream), SetWriteDeadline.
UploadStart(p, names, options, short, limit) ==
    /\ up[p].pc \in {"idle", "done"}
    /\ nextID <= limit
    /\ \E filename \in names, opts \in options, fault \in IndexFaults :
          LET fw == checkFirstWrite(fault)
              upload == parseUploadOptions(opts)
              us == newUploadStream(upload, nextID, filename)
              u == [NoUpload EXCEPT !.id = nextID]
          IN /\ filesIdx' = fw.files
             /\ chunksIdx' = fw.chunks
             /\ firstWriteDone' = fw.done
             /\ ixLog' = fw.log
             /\ \/ /\ fw.err # Nil
                   /\ up' = [up EXCEPT ![p] = Finished(u, fw.err)]
                \/ /\ fw.err = Nil
                   /\ upload.err # Nil
                   /\ up' = [up EXCEPT ![p] = Finished(u, upload.err)]
                \/ /\ fw.err = Nil
                   /\ upload.err = Nil
                   /\ \E len \in SourceLens(short, upload.chunkSize) :
                         up' = [up EXCEPT ![p] =
                                  [u EXCEPT !.pc = "read", !.len = len, !.us = us]]
    /\ nextID' = nextID + 1
    /\ res' = NoRes
    /\ UNCHANGED <<filesColl, chunksColl, chunkSize, readBuf, clock>>

\* UploadFromStream called while no other call of the bucket is running.
UploadOpen(p, names, options, short, limit) ==
    /\ Quiet
    /\ UploadStart(p, names, options, short, limit)

\* OpenUploadStream(filename, opts) called while no other call is running:
\* checkFirstWrite, parseUploadOptions, newUploadStream.  The caller gets the
\* stream or the error.
OpenUploadStream(names, options, limit) ==
    /\ Quiet
    /\ nextID <= limit
    /\ \E filename \in names, opts \in options, fault \in IndexFaults :
          LET fw == checkFirstWrite(fault)
              upload == parseUploadOptions(opts)
              err == IF fw.err # Nil THEN fw.err ELSE upload.err
          IN /\ filesIdx' = fw.files
             /\ chunksIdx' = fw.chunks
             /\ firstWriteDone' = fw.done
             /\ ixLog' = fw.log
             /\ res' = [NoRes EXCEPT !.op = "OpenUploadStream", !.id = nextID,
                           !.filename = filename, !.err = err,
                           !.stream = IF err = Nil THEN "open" ELSE "none"]
    /\ nextID' = nextID + 1
    /\ UNCHANGED <<filesColl, chunksColl, chunkSize, readBuf, clock, up>>

\* source.Read(b.readBuf).  The source hands over between 1 and len(readBuf)
\* of the bytes it has left, with io.EOF or without when they are its last;
\* or 0 bytes and io.EOF when it has none left; or k bytes and an error, on
\* which the upload is aborted.
UploadRead(p) ==
    /\ up[p].pc = "read"
    /\ LET u == up[p]
           left == u.len - u.pos
           src == SourceBytes(u.id, u.len)
           Fill(k) == [i \in 1..Len(readBuf) |->
                          IF i <= k THEN src[u.pos + i] ELSE readBuf[i]]
       IN \/ \E n \in 1..Min(Len(readBuf), left) :
             \E rerr \in IF n = left THEN {Nil, EOF} ELSE {Nil} :
                /\ readBuf' = Fill(n)
                /\ up' = [up EXCEPT ![p] = [u EXCEPT !.pc = "write", !.n = n,
                                               !.rerr = rerr, !.pos = @ + n]]
                /\ UNCHANGED chunksColl
          \/ /\ left = 0
             /\ readBuf' = readBuf
             /\ up' = [up EXCEPT ![p] = [u EXCEPT !.pc = "close", !.n = 0,
                                            !.rerr = EOF]]
             /\ UNCHANGED chunksColl
          \/ \E k \in 0..Min(Len(readBuf), left), deleteFails \in BOOLEAN :
                LET a == OnReadError(u.us, deleteFails)
                IN /\ readBuf' = Consumed(Fill(k), p)
                   /\ chunksColl' = a.chunks
                   /\ up' = [up EXCEPT ![p] =
                               Finished([u EXCEPT !.us = a.us, !.abortErr = a.err],
                                        SourceError)]
    /\ UNCHANGED <<filesColl, filesIdx, chunksIdx, ixLog, chunkSize, firstWriteDone,
                   nextID, clock, res>>

\* us.Write(b.readBuf[:n]) and the test that ends the loop.
UploadWrite(p) ==
    /\ up[p].pc = "write"
    /\ LET u == up[p]
           bytes == ReadSlice(readBuf, u.n)
       IN \E okInserts \in 0..WriteInserts(u.us, bytes) :
             LET w == usWrite(u.us, bytes, okInserts)
             IN /\ chunksColl' = chunksColl \cup w.docs
                /\ readBuf' = Consumed(readBuf, p)
                /\ up' = [up EXCEPT ![p] =
                            IF w.err # Nil THEN Finished([u EXCEPT !.us = w.us], w.err)
                            ELSE [u EXCEPT !.us = w.us,
                                     !.pc = IF LastRead(u.n, u.rerr)
                                            THEN "close" ELSE "read"]]
    /\ UNCHANGED <<filesColl, filesIdx, chunksIdx, ixLog, chunkSize, firstWriteDone,
                   nextID, clock, res>>

\* return us.Close()
UploadClose(p) ==
    /\ up[p].pc = "close"
    /\ \E fault \in CloseFaults :
          LET u == up[p]
              c == usClose(u.us, fault, clock)
          IN /\ chunksColl' = chunksColl \cup c.docs
             /\ filesColl' = filesColl \cup c.file
             /\ clock' = IF c.file # {} THEN clock + 1 ELSE clock
             /\ up' = [up EXCEPT ![p] = Finished([u EXCEPT !.us = c.us], c.err)]
    /\ UNCHANGED <<filesIdx, chunksIdx, ixLog, chunkSize, firstWriteDone, readBuf,
                   nextID, res>>

\* --------------------------------------------------------- download stream
\* The chunk documents of a file in the order of a cursor sorted by n.
RECURSIVE SortByN(_)
SortByN(cs) ==
    IF cs = {} THEN <<>>
    ELSE LET c == CHOOSE x \in cs : \A y \in cs : x.n <= y.n
         IN <<c>> \o SortByN(cs \ {c})

\* b.filesColl.Find with a filter, a skip and a sort on uploadDate, then
\* cursor.Next: the documents the cursor may stand on.  Documents with the
\* same uploadDate come in any order.  order = 0 is a find without a sort.
Matches(filter) ==
    {f \in filesColl : IF filter.field = "_id" THEN f.id = filter.value
                       ELSE f.filename = filter.value}

Before(f, g, order) ==
    IF order = 1 THEN f.uploadDate < g.uploadDate ELSE f.uploadDate > g.uploadDate

FirstAfterSkip(docs, skip, order) ==
    IF order = 0 THEN IF skip = 0 THEN docs ELSE {}
    ELSE {d \in docs :
            /\ Cardinality({x \in docs : Before(x, d, order)}) <= skip
            /\ skip <= Cardinality({x \in docs \ {d} : ~Before(d, x, order)})}

findFile(filter, skip, order, findFails) ==
    IF findFails THEN {[err |-> StoreError, file |-> {}]}
    ELSE LET found == FirstAfterSkip(Matches(filter), skip, order)
         IN IF found = {} THEN {[err |-> ErrFileNotFound, file |-> {}]}
            ELSE {[err |-> Nil, file |-> {d}] : d \in found}

findChunks(fileID, findFails) ==
    IF findFails THEN [err |-> StoreError, cursor |-> <<>>]
    ELSE [err |-> Nil, cursor |-> SortByN(ChunksOf(fileID))]

\* What an open returns: stream is "none" when no stream is returned;
\* hasCursor is whether the stream holds a chunk cursor; chunkQuery is
\* whether a find was issued on the chunks collection.
Opened(err, stream, file, hasCursor, cursor, chunkQuery) ==
    [err |-> err, stream |-> stream, file |-> file, hasCursor |-> hasCursor,
     cursor |-> cursor, chunkQuery |-> chunkQuery]

OpenFaults == {"none", "find", "chunks"}

\* openDownloadStream that hands back the stream it was building together
\* with the error of findChunks.
openFoundKeepsStream(f, fault) ==
    IF f.err # Nil THEN Opened(f.err, "none", {}, FALSE, <<>>, FALSE)
    ELSE LET foundFile == CHOOSE d \in f.file : TRUE
         IN IF ~foundFile.decodable
            THEN Opened(DecodeError, "none", f.file, FALSE, <<>>, FALSE)
            ELSE IF foundFile.length = 0
            THEN Opened(Nil, "open", f.file, FALSE, <<>>, FALSE)
            ELSE IF ~foundFile.hasChunkSize
            THEN Opened(ErrMissingChunkSize, "none", f.file, FALSE, <<>>, FALSE)
            ELSE LET c == findChunks(foundFile.id, fault = "chunks")
                 IN IF c.err # Nil
                    THEN Opened(c.err, "open", f.file, FALSE, <<>>, TRUE)
                    ELSE Opened(Nil, "open", f.file, TRUE, c.cursor, TRUE)

\* openDownloadStream that looks for the chunkSize field before it looks at
\* the length.
openFoundChunkSizeFirst(f, fault) ==
    IF f.err # Nil THEN Opened(f.err, "none", {}, FALSE, <<>>, FALSE)
    ELSE LET foundFile == CHOOSE d \in f.file : TRUE
         IN IF ~foundFile.decodable
            THEN Opened(DecodeError, "none", f.file, FALSE, <<>>, FALSE)
            ELSE IF ~foundFile.hasChunkSize
            THEN Opened(ErrMissingChunkSize, "none", f.file, FALSE, <<>>, FALSE)
            ELSE IF foundFile.length = 0
            THEN Opened(Nil, "open", f.file, FALSE, <<>>, FALSE)
            ELSE LET c == findChunks(foundFile.id, fault = "chunks")
                 IN IF c.err # Nil
                    THEN Opened(c.err, "none", f.file, FALSE, <<>>, TRUE)
                    ELSE Opened(Nil, "open", f.file, TRUE, c.cursor, TRUE)

\* openDownloadStream after findFile returned f.
openFound(f, fault) ==
    IF f.err # Nil THEN Opened(f.err, "none", {}, FALSE, <<>>, FALSE)
    ELSE LET foundFile == CHOOSE d \in f.file : TRUE
         IN IF ~foundFile.decodable
            THEN Opened(DecodeError, "none", f.file, FALSE, <<>>, FALSE)
            ELSE IF foundFile.length = 0
            THEN Opened(Nil, "open", f.file, FALSE, <<>>, FALSE)
            ELSE IF ~foundFile.hasChunkSize
            THEN Opened(ErrMissingChunkSize, "none", f.file, FALSE, <<>>, FALSE)
            ELSE LET c == findChunks(foundFile.id, fault = "chunks")
                 IN IF c.err # Nil
                    THEN Opened(c.err, "none", f.file, FALSE, <<>>, TRUE)
                    ELSE Opened(Nil, "open", f.file, TRUE, c.cursor, TRUE)

openDownloadStream(filter, skip, order, fault) ==
    {openFound(f, fault) : f \in findFile(filter, skip, order, fault = "find")}

\* io.Copy(stream, ds): DownloadStream.Read takes the chunks of the cursor in
\* turn, checks each one's n and length, and its bytes are written to the
\* sink.  failAt is the chunk at which the cursor (kind "cursor") or the sink
\* (kind "sink") fails.
RECURSIVE dsCopy(_, _, _, _, _, _)
dsCopy(file, cursor, expectedN, sink, kind, failAt) ==
    LET left == file.length - Len(sink)
    IN IF cursor = <<>>
       THEN [sink |-> sink, err |-> IF left = 0 THEN Nil ELSE CorruptFileError]
       ELSE IF kind = "cursor" /\ failAt = expectedN
       THEN [sink |-> sink, err |-> StoreError]
       ELSE LET c == Head(cursor)
            IN IF c.n # expectedN \/ Len(c.data) # Min(file.chunkSize, left)
               THEN [sink |-> sink, err |-> CorruptFileError]
               ELSE IF kind = "sink" /\ failAt = expectedN
               THEN [sink |-> sink, err |-> "SinkError"]
               ELSE dsCopy(file, Tail(cursor), expectedN + 1,
                           sink \o c.data, kind, failAt)

\* What may fail under downloadToStream: ds.SetReadDeadline, the cursor or
\* the sink during the copy, the closing of the cursor.
CopyFaults == {"none", "deadline", "cursor", "sink", "close"}

\* DownloadStream.Close: the stream is closed whether or not the cursor
\* could be closed.
dsClose(state, fails) ==
    IF state = "closed" THEN [state |-> "closed", err |-> StreamClosedError]
    ELSE [state |-> "closed", err |-> IF fails THEN StoreError ELSE Nil]

\* downloadToStream that returns the error of the copy at once.
downloadToStreamLeak(ds, kind, failAt) ==
    LET file == CHOOSE d \in ds.file : TRUE
        c == dsCopy(file, ds.cursor, 0, <<>>, kind, failAt)
    IN IF kind = "deadline"
       THEN [err |-> DeadlineError, copied |-> 0, sink |-> <<>>,
             stream |-> dsClose(ds.stream, FALSE).state]
       ELSE IF c.err # Nil
       THEN [err |-> c.err, copied |-> 0, sink |-> c.sink, stream |-> ds.stream]
       ELSE [err |-> dsClose(ds.stream, kind = "close").err,
             copied |-> Len(c.sink), sink |-> c.sink,
             stream |-> dsClose(ds.stream, kind = "close").state]

\* downloadToStream: ds.SetReadDeadline, the copy, and ds.Close on every path.
downloadToStream(ds, kind, failAt) ==
    LET file == CHOOSE d \in ds.file : TRUE
        c == dsCopy(file, ds.cursor, 0, <<>>, kind, failAt)
    IN IF kind = "deadline"
       THEN [err |-> DeadlineError, copied |-> 0, sink |-> <<>>,
             stream |-> dsClose(ds.stream, FALSE).state]
       ELSE IF c.err # Nil
       THEN [err |-> c.err, copied |-> 0, sink |-> c.sink,
             stream |-> dsClose(ds.stream, FALSE).state]
       ELSE [err |-> dsClose(ds.stream, kind = "close").err,
             copied |-> Len(c.sink), sink |-> c.sink,
             stream |-> dsClose(ds.stream, kind = "close").state]

\* DownloadToStream(fileID, stream)
DownloadToStream ==
    /\ Idle
    /\ \E fileID \in FileIDs, fault \in OpenFaults :
       \E ds \in openDownloadStream([field |-> "_id", value |-> fileID], 0, 0, fault) :
          IF ds.err # Nil
          THEN res' = [NoRes EXCEPT !.op = "DownloadToStream", !.id = fileID,
                          !.err = ds.err, !.chunkQuery = ds.chunkQuery]
          ELSE \E kind \in CopyFaults, failAt \in 0..Len(ds.cursor) :
                  /\ kind \in {"none", "close", "deadline"} => failAt = 0
                  /\ LET d == downloadToStream(ds, kind, failAt)
                     IN res' = [NoRes EXCEPT !.op = "DownloadToStream",
                                   !.id = fileID, !.err = d.err, !.opened = TRUE,
                                   !.stream = d.stream, !.file = ds.file,
                                   !.chunkQuery = ds.chunkQuery,
                                   !.sink = d.sink, !.copied = d.copied]
    /\ UNCHANGED <<filesColl, chunksColl, filesIdx, chunksIdx, ixLog, chunkSize,
                   firstWriteDone, readBuf, nextID, clock, up>>

\* int32 arithmetic wraps around; TLC's integers are no wider than an int32,
\* so the two operations are given with their wrap-around spelled out.
MinInt32 == -2147483647 - 1
MaxInt32 == 2147483646 + 1
Neg32(x) == IF x = MinInt32 THEN MinInt32 ELSE -1 * x
Dec32(x) == IF x = MinInt32 THEN MaxInt32 ELSE x - 1

\* OpenDownloadStreamByName that skips -numSkip documents for a negative
\* revision.
NameFindNoDecrement(nameOpts) ==
    LET numSkip == IF nameOpts.set THEN nameOpts.revision ELSE -1
    IN IF numSkip < 0
       THEN [skip |-> Neg32(numSkip), order |-> -1]
       ELSE [skip |-> numSkip, order |-> 1]

\* OpenDownloadStreamByName that takes one off the revision before it
\* changes the sign.
NameFindDecrementFirst(nameOpts) ==
    LET numSkip == IF nameOpts.set THEN nameOpts.revision ELSE -1
    IN IF numSkip < 0
       THEN [skip |-> Neg32(Dec32(numSkip)), order |-> -1]
       ELSE [skip |-> numSkip, order |-> 1]

\* The skip and the sort direction OpenDownloadStreamByName computes.
NameFind(nameOpts) ==
    LET numSkip == IF nameOpts.set THEN nameOpts.revision ELSE -1
    IN IF numSkip < 0
       THEN [skip |-> Dec32(Neg32(numSkip)), order |-> -1]
       ELSE [skip |-> numSkip, order |-> 1]

\* OpenDownloadStream(fileID)
OpenDownloadStream ==
    /\ Idle
    /\ \E fileID \in FileIDs, fault \in OpenFaults :
       \E ds \in openDownloadStream([field |-> "_id", value |-> fileID], 0, 0, fault) :
          res' = [NoRes EXCEPT !.op = "OpenDownloadStream", !.id = fileID,
                     !.err = ds.err, !.stream = ds.stream, !.file = ds.file,
                     !.hasCursor = ds.hasCursor, !.chunkQuery = ds.chunkQuery,
                     !.findErr = IF fault = "find" THEN StoreError ELSE Nil,
                     !.cursor = [i \in 1..Len(ds.cursor) |-> ds.cursor[i].n]]
    /\ UNCHANGED <<filesColl, chunksColl, filesIdx, chunksIdx, ixLog, chunkSize,
                   firstWriteDone, readBuf, nextID, clock, up>>

\* OpenDownloadStreamByName(filename, opts)
OpenDownloadStreamByName(options) ==
    /\ Idle
    /\ \E filename \in Names, nameOpts \in options, fault \in OpenFaults :
       \E ds \in openDownloadStream([field |-> "filename", value |-> filename],
                                    NameFind(nameOpts).skip,
                                    NameFind(nameOpts).order, fault) :
          res' = [NoRes EXCEPT !.op = "OpenDownloadStreamByName",
                     !.filename = filename, !.nameOpts = nameOpts,
                     !.skip = NameFind(nameOpts).skip,
                     !.order = NameFind(nameOpts).order,
                     !.err = ds.err, !.stream = ds.stream, !.file = ds.file,
                     !.hasCursor = ds.hasCursor, !.chunkQuery = ds.chunkQuery,
                     !.findErr = IF fault = "find" THEN StoreError ELSE Nil,
                     !.cursor = [i \in 1..Len(ds.cursor) |-> ds.cursor[i].n]]
    /\ UNCHANGED <<filesColl, chunksColl, filesIdx, chunksIdx, ixLog, chunkSize,
                   firstWriteDone, readBuf, nextID, clock, up>>

\* DownloadToStreamByName(filename, stream, opts)
DownloadToStreamByName(options) ==
    /\ Idle
    /\ \E filename \in Names, nameOpts \in options, fault \in OpenFaults :
       \E ds \in openDownloadStream([field |-> "filename", value |-> filename],
                                    NameFind(nameOpts).skip,
                                    NameFind(nameOpts).order, fault) :
          IF ds.err # Nil
          THEN res' = [NoRes EXCEPT !.op = "DownloadToStreamByName",
                          !.filename = filename, !.nameOpts = nameOpts,
                          !.err = ds.err, !.chunkQuery = ds.chunkQuery]
          ELSE \E kind \in CopyFaults, failAt \in 0..Len(ds.cursor) :
                  /\ kind \in {"none", "close", "deadline"} => failAt = 0
                  /\ LET d == downloadToStream(ds, kind, failAt)
                     IN res' = [NoRes EXCEPT !.op = "DownloadToStreamByName",
                                   !.filename = filename, !.nameOpts = nameOpts,
                                   !.err = d.err, !.opened = TRUE,
                                   !.stream = d.stream, !.file = ds.file,
                                   !.chunkQuery = ds.chunkQuery,
                                   !.sink = d.sink, !.copied = d.copied]
    /\ UNCHANGED <<filesColl, chunksColl, filesIdx, chunksIdx, ixLog, chunkSize,
                   firstWriteDone, readBuf, nextID, clock, up>>

\* ------------------------------------------------------------------ Delete
\* b.chunksColl.DeleteMany of the chunks of fileID.  deleted is the number of
\* documents the store removed, which the bucket does not look at.
deleteChunksAll(fileID, fails) ==
    IF fails THEN [err |-> StoreError, chunks |-> chunksColl, deleted |-> 0]
    ELSE [err |-> Nil, chunks |-> {}, deleted |-> Cardinality(chunksColl)]

deleteChunks(fileID, fails) ==
    IF fails THEN [err |-> StoreError, chunks |-> chunksColl, deleted |-> 0]
    ELSE [err |-> Nil, chunks |-> {c \in chunksColl : c.files_id # fileID},
          deleted |-> Cardinality(ChunksOf(fileID))]

\* b.filesColl.DeleteOne of the document with this _id.
DeleteOne(fileID, fails) ==
    IF fails THEN [err |-> StoreError, DeletedCount |-> 0, files |-> filesColl]
    ELSE [err |-> Nil, DeletedCount |-> Cardinality(FilesWithID(fileID)),
          files |-> filesColl \ FilesWithID(fileID)]

\* DeleteContext that returns what DeleteOne returned and drops the error of
\* the chunk deletion.
DeleteContextFilesError(fileID, fileFails, chunksFail) ==
    LET r == DeleteOne(fileID, fileFails)
        err == IF r.err = Nil /\ r.DeletedCount = 0 THEN ErrFileNotFound ELSE r.err
        c == deleteChunks(fileID, chunksFail)
    IN [err |-> err, files |-> r.files, chunks |-> c.chunks,
        fileDelete |-> r.err, DeletedCount |-> r.DeletedCount,
        chunkDelete |-> c.err, deleted |-> c.deleted]

\* DeleteContext that returns at once when the files collection had no match.
DeleteContextMatchedOnly(fileID, fileFails, chunksFail) ==
    LET r == DeleteOne(fileID, fileFails)
        err == IF r.err = Nil /\ r.DeletedCount = 0 THEN ErrFileNotFound ELSE r.err
        c == deleteChunks(fileID, chunksFail)
    IN IF err # Nil
       THEN [err |-> err, files |-> r.files, chunks |-> chunksColl,
             fileDelete |-> r.err, DeletedCount |-> r.DeletedCount,
             chunkDelete |-> "none", deleted |-> 0]
       ELSE [err |-> c.err, files |-> r.files, chunks |-> c.chunks,
             fileDelete |-> r.err, DeletedCount |-> r.DeletedCount,
             chunkDelete |-> c.err, deleted |-> c.deleted]

\* DeleteContext that returns at once when DeleteOne failed with a store
\* error, and deletes the chunks only when the store answered.
DeleteContextStoreErrorReturns(fileID, fileFails, chunksFail) ==
    LET r == DeleteOne(fileID, fileFails)
        err == IF r.err = Nil /\ r.DeletedCount = 0 THEN ErrFileNotFound ELSE r.err
        c == deleteChunks(fileID, chunksFail)
    IN IF r.err # Nil
       THEN [err |-> r.err, files |-> r.files, chunks |-> chunksColl,
             fileDelete |-> r.err, DeletedCount |-> r.DeletedCount,
             chunkDelete |-> "none", deleted |-> 0]
       ELSE [err |-> IF err # Nil THEN err ELSE c.err, files |-> r.files,
             chunks |-> c.chunks,
             fileDelete |-> r.err, DeletedCount |-> r.DeletedCount,
             chunkDelete |-> c.err, deleted |-> c.deleted]

\* DeleteContext: what it returns and leaves in the store, with what the two
\* deletions returned.  The files document goes first; the chunks are deleted
\* whatever came of that, and their error is returned only when the files
\* document was deleted.
DeleteContext(fileID, fileFails, chunksFail) ==
    LET r == DeleteOne(fileID, fileFails)
        err == IF r.err = Nil /\ r.DeletedCount = 0 THEN ErrFileNotFound ELSE r.err
        c == deleteChunks(fileID, chunksFail)
    IN IF err # Nil
       THEN [err |-> err, files |-> r.files, chunks |-> c.chunks,
             fileDelete |-> r.err, DeletedCount |-> r.DeletedCount,
             chunkDelete |-> c.err, deleted |-> c.deleted]
       ELSE [err |-> c.err, files |-> r.files, chunks |-> c.chunks,
             fileDelete |-> r.err, DeletedCount |-> r.DeletedCount,
             chunkDelete |-> c.err, deleted |-> c.deleted]

\* Delete(fileID)
Delete(ids) ==
    /\ Quiet
    /\ \E fileID \in ids, fileFails \in BOOLEAN, chunksFail \in BOOLEAN :
          LET d == DeleteContext(fileID, fileFails, chunksFail)
          IN /\ filesColl' = d.files
             /\ chunksColl' = d.chunks
             /\ res' = [NoRes EXCEPT !.op = "Delete", !.id = fileID,
                           !.err = d.err, !.fileDelete = d.fileDelete,
                           !.DeletedCount = d.DeletedCount,
                           !.chunkDelete = d.chunkDelete, !.deleted = d.deleted]
    /\ UNCHANGED <<filesIdx, chunksIdx, ixLog, chunkSize, firstWriteDone, readBuf,
                   nextID, clock, up>>

\* ------------------------------------------------------------------ Rename
\* b.filesColl.UpdateOne of the document with this _id, $set filename.
UpdateOne(fileID, newFilename, fails) ==
    IF fails THEN [err |-> StoreError, MatchedCount |-> 0, files |-> filesColl]
    ELSE [err |-> Nil, MatchedCount |-> Cardinality(FilesWithID(fileID)),
          files |-> {IF f.id = fileID THEN [f EXCEPT !.filename = newFilename]
                     ELSE f : f \in filesColl}]

\* RenameContext that does not look at MatchedCount.
RenameContextAnyCount(fileID, newFilename, fails) ==
    LET r == UpdateOne(fileID, newFilename, fails)
    IN [err |-> r.err, files |-> r.files, updateErr |-> r.err]

\* RenameContext: what it returns and leaves in the files collection.
RenameContext(fileID, newFilename, fails) ==
    LET r == UpdateOne(fileID, newFilename, fails)
    IN IF r.err # Nil THEN [err |-> r.err, files |-> r.files, updateErr |-> r.err]
       ELSE IF r.MatchedCount = 0
       THEN [err |-> ErrFileNotFound, files |-> r.files, updateErr |-> r.err]
       ELSE [err |-> Nil, files |-> r.files, updateErr |-> r.err]

\* Rename(fileID, newFilename)
Rename(ids) ==
    /\ Quiet
    /\ \E fileID \in ids, newFilename \in Names, fails \in BOOLEAN :
          LET r == RenameContext(fileID, newFilename, fails)
          IN /\ filesColl' = r.files
             /\ res' = [NoRes EXCEPT !.op = "Rename", !.id = fileID,
                           !.filename = newFilename, !.err = r.err,
                           !.updateErr = r.updateErr]
    /\ UNCHANGED <<chunksColl, filesIdx, chunksIdx, ixLog, chunkSize, firstWriteDone,
                   readBuf, nextID, clock, up>>

\* -------------------------------------------------------------------- Drop
\* DropContext: b.filesColl.Drop, then b.chunksColl.Drop unless the first
\* failed.  A dropped collection loses its documents and its indexes.
DropContext(filesFail, chunksFail) ==
    IF filesFail
    THEN [err |-> StoreError, files |-> filesColl, filesIdx |-> filesIdx,
          chunks |-> chunksColl, chunksIdx |-> chunksIdx]
    ELSE IF chunksFail
    THEN [err |-> StoreError, files |-> {}, filesIdx |-> {},
          chunks |-> chunksColl, chunksIdx |-> chunksIdx]
    ELSE [err |-> Nil, files |-> {}, filesIdx |-> {}, chunks |-> {}, chunksIdx |-> {}]

\* Drop()
Drop ==
    /\ Quiet
    /\ \E filesFail \in BOOLEAN, chunksFail \in BOOLEAN :
          LET d == DropContext(filesFail, chunksFail)
          IN /\ filesColl' = d.files
             /\ filesIdx' = d.filesIdx
             /\ chunksColl' = d.chunks
             /\ chunksIdx' = d.chunksIdx
             /\ res' = [NoRes EXCEPT !.op = "Drop", !.err = d.err]
    /\ UNCHANGED <<ixLog, chunkSize, firstWriteDone, readBuf, nextID, clock, up>>

\* ---------------------------------------------------------- specifications
\* A caller that uploads one file of any of the sizes, with any upload
\* options, and downloads files by id.
Next ==
    \/ UploadOpen(1, {"a"}, UploadOpts, FALSE, 1)
    \/ UploadRead(1)
    \/ UploadWrite(1)
    \/ UploadClose(1)
    \/ DownloadToStream

Spec == Init /\ [][Next]_vars

\* A caller that uploads up to MaxUploads short files and deletes files, over
\* a store that is empty or holds one whole file.
NoOptions == [chunkSizeBytes : {0}, metadata : {"none", "bad"}]

NextDelete ==
    \/ UploadOpen(1, {"a"}, NoOptions, TRUE, MaxUploads)
    \/ UploadRead(1)
    \/ UploadWrite(1)
    \/ UploadClose(1)
    \/ Delete(UploadIDs \cup {94})

SpecDelete == InitWith({EmptyStore, WholeFileStore}) /\ [][NextDelete]_vars

\* A caller that uploads up to MaxUploads short files and opens download
\* streams by id and by name.
NameOptions ==
    {Revision(r) : r \in (-(MaxUploads + 4)..(MaxUploads + 3))
                          \cup {MinInt32, MinInt32 + 1, MaxInt32}}
        \cup {NoRevision}

NextOpen ==
    \/ UploadOpen(1, Names, NoOptions, TRUE, MaxUploads)
    \/ UploadRead(1)
    \/ UploadWrite(1)
    \/ UploadClose(1)
    \/ OpenDownloadStream
    \/ OpenDownloadStreamByName(NameOptions)

SpecOpen == InitWith({EmptyStore, LegacyStore}) /\ [][NextOpen]_vars

\* A caller that uploads up to MaxUploads short files and renames files, over
\* a store that is empty or holds one whole file.
NextRename ==
    \/ UploadOpen(1, Names, NoOptions, TRUE, MaxUploads)
    \/ UploadRead(1)
    \/ UploadWrite(1)
    \/ UploadClose(1)
    \/ Rename(UploadIDs \cup {94})

SpecRename == InitWith({EmptyStore, WholeFileStore}) /\ [][NextRename]_vars

\* A caller that uploads up to MaxUploads short files and downloads files by
\* id and by name.
NextDownload ==
    \/ UploadOpen(1, Names, NoOptions, TRUE, MaxUploads)
    \/ UploadRead(1)
    \/ UploadWrite(1)
    \/ UploadClose(1)
    \/ DownloadToStream
    \/ DownloadToStreamByName(NameOptions)

SpecDownload == InitWith({EmptyStore, LegacyStore}) /\ [][NextDownload]_vars

\* Two callers that each upload one short file, their calls running at the
\* same time.  A read of the source and a Write to the stream are one step
\* each; when they overlap more closely still, the shared buffer holds a mix
\* of the bytes these steps leave in it.
PlainOptions == [chunkSizeBytes : {0}, metadata : {"none"}]

NextConcurrent ==
    \/ \E p \in Procs : UploadStart(p, {"a"}, PlainOptions, TRUE, 2)
    \/ \E p \in Procs : UploadRead(p)
    \/ \E p \in Procs : UploadWrite(p)
    \/ \E p \in Procs : UploadClose(p)

SpecConcurrent == InitWith({EmptyStore}) /\ [][NextConcurrent]_vars

\* A caller that opens upload streams, one call after the other, on a bucket
\* whose store is empty or holds a file, and holds no index or indexes that
\* another client made.
MaxOpens == MaxUploads + 2

NextIndex ==
    \/ OpenUploadStream({"a"}, NoOptions, MaxOpens)

SpecIndex ==
    InitWithIndexes({EmptyStore, WholeFileStore}, ListedIndexes) /\ [][NextIndex]_vars

\* A caller that uploads short files, deletes, renames and drops the bucket.
MaxDropUploads == MaxUploads + 1

NextDrop ==
    \/ UploadOpen(1, {"a"}, PlainOptions, TRUE, MaxDropUploads)
    \/ UploadRead(1)
    \/ UploadWrite(1)
    \/ UploadClose(1)
    \/ Delete(UploadIDs \cup {94})
    \/ Rename(UploadIDs \cup {94})
    \/ Drop

SpecDrop == InitWith({EmptyStore, WholeFileStore}) /\ [][NextDrop]_vars

\* OpenUploadStream by two callers at once, one store call per step.  The
\* position of a caller is the statement of checkFirstWrite, createIndexes
\* and createNumericalIndexIfNotExists it will run next.
\* if !b.firstWriteDone: the caller reads the flag.
FirstWriteRead(p) ==
    /\ up[p].pc = "idle"
    /\ up' = [up EXCEPT ![p].pc = IF firstWriteDone THEN "stream" ELSE "findOne"]
    /\ UNCHANGED <<filesColl, chunksColl, filesIdx, chunksIdx, chunkSize,
                   firstWriteDone, readBuf, nextID, clock, ixLog, res>>

\* The caller returns the error of a store call.
Failed(p) == [up EXCEPT ![p].pc = "done", ![p].err = StoreError]

\* cloned.FindOne and docRes.Raw: a document, ErrNoDocuments, or an error.
FirstWriteFindOne(p) ==
    /\ up[p].pc = "findOne"
    /\ \E fails \in BOOLEAN :
          up' = IF fails THEN Failed(p)
                ELSE [up EXCEPT ![p].pc = IF filesColl # {} THEN "setFlag"
                                          ELSE "listFiles"]
    /\ ixLog' = [ixLog EXCEPT !.findOne = @ + 1]
    /\ UNCHANGED <<filesColl, chunksColl, filesIdx, chunksIdx, chunkSize,
                   firstWriteDone, readBuf, nextID, clock, res>>

\* iv.List and the comparison of the keys it returned, on the files
\* collection and on the chunks collection.
FirstWriteList(p) ==
    /\ up[p].pc \in {"listFiles", "listChunks"}
    /\ LET files == up[p].pc = "listFiles"
           idx == IF files THEN filesIdx ELSE chunksIdx
           model == IF files THEN filesModel ELSE chunksModel
           found == \E i \in idx : numericalIndexDocsEqual(model.key, i.key)
       IN /\ \E fails \in BOOLEAN :
                up' = IF fails THEN Failed(p)
                      ELSE [up EXCEPT ![p].pc =
                              IF files
                              THEN IF found THEN "listChunks" ELSE "createFiles"
                              ELSE IF found THEN "setFlag" ELSE "createChunks"]
          /\ ixLog' = IF files THEN [ixLog EXCEPT !.listFiles = @ + 1]
                      ELSE [ixLog EXCEPT !.listChunks = @ + 1]
    /\ UNCHANGED <<filesColl, chunksColl, filesIdx, chunksIdx, chunkSize,
                   firstWriteDone, readBuf, nextID, clock, res>>

\* iv.CreateOne.  The store makes the index unless it has that very index.
FirstWriteCreate(p) ==
    /\ up[p].pc \in {"createFiles", "createChunks"}
    /\ LET files == up[p].pc = "createFiles"
       IN \E fails \in BOOLEAN :
             /\ up' = IF fails THEN Failed(p)
                      ELSE [up EXCEPT ![p].pc = IF files THEN "listChunks"
                                                ELSE "setFlag"]
             /\ filesIdx' = IF files /\ ~fails
                            THEN filesIdx \cup {CreatedIndex(filesModel)}
                            ELSE filesIdx
             /\ chunksIdx' = IF ~files /\ ~fails
                             THEN chunksIdx \cup {CreatedIndex(chunksModel)}
                             ELSE chunksIdx
             /\ ixLog' =
                  IF files
                  THEN [ixLog EXCEPT
                          !.createFiles = @ + 1,
                          !.createdFiles = @ + Count(~fails /\
                                 CreatedIndex(filesModel) \notin filesIdx)]
                  ELSE [ixLog EXCEPT
                          !.createChunks = @ + 1,
                          !.createdChunks = @ + Count(~fails /\
                                 CreatedIndex(chunksModel) \notin chunksIdx)]
    /\ UNCHANGED <<filesColl, chunksColl, chunkSize, firstWriteDone, readBuf,
                   nextID, clock, res>>

\* b.firstWriteDone = true
FirstWriteSet(p) ==
    /\ up[p].pc = "setFlag"
    /\ firstWriteDone' = TRUE
    /\ up' = [up EXCEPT ![p].pc = "stream"]
    /\ UNCHANGED <<filesColl, chunksColl, filesIdx, chunksIdx, chunkSize,
                   readBuf, nextID, clock, ixLog, res>>

\* parseUploadOptions and newUploadStream: the caller gets its stream.
FirstWriteStream(p) ==
    /\ up[p].pc = "stream"
    /\ LET upload == parseUploadOptions([chunkSizeBytes |-> 0, metadata |-> "none"])
       IN up' = [up EXCEPT ![p].pc = "done", ![p].id = nextID,
                           ![p].us = newUploadStream(upload, nextID, "a")]
    /\ nextID' = nextID + 1
    /\ UNCHANGED <<filesColl, chunksColl, filesIdx, chunksIdx, chunkSize,
                   firstWriteDone, readBuf, clock, ixLog, res>>

NextFirstWrite ==
    \E p \in Procs :
       \/ FirstWriteRead(p)
       \/ FirstWriteFindOne(p)
       \/ FirstWriteList(p)
       \/ FirstWriteCreate(p)
       \/ FirstWriteSet(p)
       \/ FirstWriteStream(p)

SpecFirstWrite ==
    InitWith({EmptyStore, WholeFileStore}) /\ [][NextFirstWrite]_vars

\* ----------------------------------------------------------------- claims
\* How a file of length len is cut into chunks of size cs.
NumChunks(len, cs) == (len + cs - 1) \div cs

\* The chunk documents of file id are those of a file of length len cut into
\* chunks of size cs: one document for each n, each of the right length.
WholeChunkSet(id, len, cs) ==
    /\ Cardinality(ChunksOf(id)) = NumChunks(len, cs)
    /\ \A n \in 0..(NumChunks(len, cs) - 1) :
          \E c \in ChunksOf(id) :
             /\ c.n = n
             /\ Len(c.data) = IF n < NumChunks(len, cs) - 1 THEN cs
                              ELSE len - cs * (NumChunks(len, cs) - 1)

Uploaded(p) == up[p].pc = "done" /\ up[p].err = Nil

DownloadedAfterUpload(p) ==
    /\ Uploaded(p)
    /\ res.op = "DownloadToStream"
    /\ res.id = up[p].id

\* C1: after an upload of one of the sizes 0, 1, C-1, C, C+1, 10C, 10C+7
\* returned nil, a download of the returned id that meets no failure of the
\* store, of the sink or of the read deadline writes exactly the bytes of the source, in order, and
\* returns nil: it never finds the file missing or corrupt.
C1_RoundTrip ==
    (DownloadedAfterUpload(1) /\ res.err \notin {StoreError, "SinkError", DeadlineError}) =>
        /\ up[1].len \in Sizes(up[1].us.chunkSize)
        /\ res.err = Nil
        /\ res.sink = SourceBytes(up[1].id, up[1].len)
        /\ res.copied = up[1].len

C1_Witness ==
    /\ DownloadedAfterUpload(1)
    /\ res.err = Nil
    /\ up[1].us.chunkSize = 2
    /\ up[1].len = 10 * 2 + 7
    /\ res.sink = SourceBytes(up[1].id, 27)

\* C2: a committed upload of length L with chunk size C has exactly
\* ceil(L/C) chunk documents, one for each n in [0, ceil(L/C)), all of length
\* C but the last, which has L - C*(ceil(L/C) - 1) bytes; none when L = 0.
\* The source's reads split the bytes in every way.
C2_ChunkLayout ==
    Uploaded(1) =>
        /\ WholeChunkSet(up[1].id, up[1].len, up[1].us.chunkSize)
        /\ up[1].len = 0 => ChunksOf(up[1].id) = {}

C2_Witness ==
    /\ Uploaded(1)
    /\ up[1].us.chunkSize = 2
    /\ up[1].len = 3
    /\ chunkSize = 1
    /\ {c.n : c \in ChunksOf(up[1].id)} = {0, 1}

\* C3: during an upload every chunk inserted has a larger n than the chunks
\* its file already has and no metadata document exists yet for the file;
\* so in every state a file of this bucket that has its metadata document has
\* its whole chunk set.
C3_ChunksThenMetadata ==
    /\ [](\A f \in filesColl :
            f.id \in UploadIDs => WholeChunkSet(f.id, f.length, f.chunkSize))
    /\ [][\A c \in chunksColl' \ chunksColl :
            /\ \A d \in ChunksOf(c.files_id) : d.n < c.n
            /\ FilesWithID(c.files_id) = {}]_vars

C3_Witness ==
    /\ Uploaded(1)
    /\ up[1].len = 10 * up[1].us.chunkSize + 7
    /\ \E f \in filesColl : f.id = up[1].id /\ f.length = up[1].len

\* C8 as amended: when the source returns an error the caller gets that
\* error, the stream is aborted and no metadata document is written; the
\* file has no chunk documents left when the store carried out the deletion
\* of the abort.
C8_AbortOnReadError ==
    (up[1].pc = "done" /\ up[1].err = SourceError) =>
        /\ up[1].us.state = "aborted"
        /\ FilesWithID(up[1].id) = {}
        /\ up[1].abortErr = Nil => ChunksOf(up[1].id) = {}

\* Two and a half chunks were written, then the source failed.
C8_Witness ==
    /\ up[1].pc = "done"
    /\ up[1].err = SourceError
    /\ up[1].abortErr = Nil
    /\ up[1].us.chunkSize = 2
    /\ up[1].pos = 5
    /\ ChunksOf(up[1].id) = {}

\* C8 as stated: after a source error the store holds no chunk document and
\* no metadata document of the file, whatever happened before.
C8_Original ==
    (up[1].pc = "done" /\ up[1].err = SourceError) =>
        /\ ChunksOf(up[1].id) = {}
        /\ FilesWithID(up[1].id) = {}

\* C4: a Delete that returns nil leaves no files document and no chunk
\* document of its id, and leaves the documents of every other id as they
\* were.
C4_DeleteRemovesFile ==
    [][(res'.op = "Delete" /\ res'.err = Nil) =>
          /\ {f \in filesColl' : f.id = res'.id} = {}
          /\ {c \in chunksColl' : c.files_id = res'.id} = {}
          /\ {f \in filesColl' : f.id # res'.id} = {f \in filesColl : f.id # res'.id}
          /\ {c \in chunksColl' : c.files_id # res'.id}
                = {c \in chunksColl : c.files_id # res'.id}]_vars

\* The legacy file was deleted and an uploaded file is still whole.
C4_Witness ==
    /\ res.op = "Delete"
    /\ res.err = Nil
    /\ res.id = 94
    /\ res.deleted = 2
    /\ \E f \in filesColl : f.length > 0 /\ WholeChunkSet(f.id, f.length, f.chunkSize)

\* C5: when the files document was deleted and the deletion of the chunks
\* failed, Delete returns the error of the chunk deletion and the files
\* document is not in the store.
C5_ChunkErrorNoRollback ==
    (res.op = "Delete" /\ res.fileDelete = Nil /\ res.DeletedCount = 1
        /\ res.chunkDelete # Nil) =>
        /\ res.err = res.chunkDelete
        /\ res.err = StoreError
        /\ FilesWithID(res.id) = {}

C5_Witness ==
    /\ res.op = "Delete"
    /\ res.fileDelete = Nil
    /\ res.DeletedCount = 1
    /\ res.chunkDelete = StoreError
    /\ res.err = StoreError
    /\ FilesWithID(res.id) = {}
    /\ ChunksOf(res.id) # {}

\* C6: when no files document matched, Delete has still asked the store to
\* delete the chunks of the id, so none is left unless that deletion failed,
\* and it returns ErrFileNotFound whether or not it failed.
C6_NotFoundStillDeletesChunks ==
    (res.op = "Delete" /\ res.fileDelete = Nil /\ res.DeletedCount = 0) =>
        /\ res.chunkDelete \in {Nil, StoreError}
        /\ res.chunkDelete = Nil => ChunksOf(res.id) = {}
        /\ res.err = ErrFileNotFound

\* Orphaned chunks were removed by a Delete that found no files document.
C6_Witness ==
    /\ res.op = "Delete"
    /\ res.fileDelete = Nil
    /\ res.DeletedCount = 0
    /\ res.err = ErrFileNotFound
    /\ res.chunkDelete = Nil
    /\ res.deleted > 0
    /\ ChunksOf(res.id) = {}

\* The files documents with the filename of the last open by name, and
\* whether their upload dates differ from one another.
Named == {f \in filesColl : f.filename = res.filename}
DistinctDates(fs) == \A f \in fs, g \in fs : f.uploadDate = g.uploadDate => f = g
Older(fs, d) == Cardinality({x \in fs : x.uploadDate < d.uploadDate})
Newer(fs, d) == Cardinality({x \in fs : x.uploadDate > d.uploadDate})
RevisionAsked == IF res.nameOpts.set THEN res.nameOpts.revision ELSE -1

\* C7: with N files of one filename uploaded at distinct times, an open by
\* name whose find the store answered stands on the file with r older ones
\* for a revision r >= 0 and on the file with -r-1 newer ones for r < 0, no
\* revision being revision -1; a revision outside [-N, N-1] returns
\* ErrFileNotFound.
C7_RevisionSelection ==
    (res.op = "OpenDownloadStreamByName" /\ res.findErr = Nil
        /\ DistinctDates(Named)) =>
        LET N == Cardinality(Named)
            r == RevisionAsked
        IN IF r \in (-N)..(N - 1)
           THEN /\ res.err # ErrFileNotFound
                /\ \E d \in Named :
                      /\ res.file = {d}
                      /\ IF r >= 0 THEN Older(Named, d) = r
                         ELSE Newer(Named, d) = (-r) - 1
           ELSE /\ res.err = ErrFileNotFound
                /\ res.stream = "none"

\* Of three files of one filename, revision 1 opened the second.
C7_Witness ==
    /\ res.op = "OpenDownloadStreamByName"
    /\ res.err = Nil
    /\ res.stream = "open"
    /\ Cardinality(Named) = 3
    /\ DistinctDates(Named)
    /\ res.nameOpts = Revision(1)
    /\ \E d \in Named : res.file = {d} /\ Older(Named, d) = 1 /\ Newer(Named, d) = 1

\* The last call was one of the two opens.
OpenReturned == res.op \in {"OpenDownloadStream", "OpenDownloadStreamByName"}

\* The documents the filter of the last open matches.
Looked ==
    IF res.op = "OpenDownloadStream" THEN FilesWithID(res.id) ELSE Named

\* C9: an open returns a stream and a nil error, or no stream and an error;
\* when the store answered the find and no files document matches, the error
\* is ErrFileNotFound and no find was issued on the chunks collection.
C9_StreamOrError ==
    OpenReturned =>
        /\ (res.stream = "open") = (res.err = Nil)
        /\ res.stream \in {"open", "none"}
        /\ (res.findErr = Nil /\ Looked = {}) =>
              (res.err = ErrFileNotFound /\ ~res.chunkQuery /\ ~res.hasCursor)
        /\ res.err = ErrFileNotFound => ~res.chunkQuery

\* The find on the chunks collection failed: an error and no stream.
C9_Witness ==
    /\ OpenReturned
    /\ res.chunkQuery
    /\ res.err = StoreError
    /\ res.stream = "none"
    /\ res.file # {}

\* No files document has the id: ErrFileNotFound and no chunk query.
C9_WitnessNotFound ==
    /\ res.op = "OpenDownloadStream"
    /\ res.findErr = Nil
    /\ Looked = {}
    /\ res.err = ErrFileNotFound
    /\ ~res.chunkQuery
    /\ chunksColl # {}

\* The cursor of the last open goes up by n over the chunks of the file.
CursorAscending(id) ==
    /\ \A i \in 1..(Len(res.cursor) - 1) : res.cursor[i] < res.cursor[i + 1]
    /\ {res.cursor[i] : i \in 1..Len(res.cursor)} = {c.n : c \in ChunksOf(id)}
    /\ Len(res.cursor) = Cardinality(ChunksOf(id))

\* C10: an open that found a files document it could decode returns a stream
\* without a cursor and asks for no chunks when the length is 0, with or
\* without a chunkSize field; returns ErrMissingChunkSize without asking for
\* chunks when the length is above 0 and the field is absent; and asks for
\* the chunks, sorted by n, only when the length is above 0 and the field is
\* there.
C10_CursorOnlyForContent ==
    (OpenReturned /\ res.file # {}) =>
        \A f \in res.file :
           f.decodable =>
              /\ f.length = 0 =>
                    (res.err = Nil /\ res.stream = "open"
                       /\ ~res.hasCursor /\ ~res.chunkQuery)
              /\ (f.length > 0 /\ ~f.hasChunkSize) =>
                    (res.err = ErrMissingChunkSize /\ res.stream = "none"
                       /\ ~res.hasCursor /\ ~res.chunkQuery)
              /\ (f.length > 0 /\ f.hasChunkSize) => res.chunkQuery
              /\ res.chunkQuery => (f.length > 0 /\ f.hasChunkSize)
              /\ res.hasCursor => (res.chunkQuery /\ res.err = Nil /\ CursorAscending(f.id))
              /\ (res.chunkQuery /\ res.err = Nil) => res.hasCursor

\* A file of length 0 without the chunkSize field was opened.
C10_Witness ==
    /\ OpenReturned
    /\ res.err = Nil
    /\ res.stream = "open"
    /\ ~res.hasCursor
    /\ ~res.chunkQuery
    /\ \E f \in res.file : f.length = 0 /\ ~f.hasChunkSize

\* A file of length 2 without the chunkSize field was refused.
C10_WitnessMissing ==
    /\ OpenReturned
    /\ res.err = ErrMissingChunkSize
    /\ ~res.chunkQuery
    /\ \E f \in res.file : f.length = 2 /\ ~f.hasChunkSize

\* A cursor over two chunks was opened.
C10_WitnessCursor ==
    /\ OpenReturned
    /\ res.hasCursor
    /\ res.cursor = <<0, 1>>

\* C11: a Rename of an id that no files document has returns ErrFileNotFound
\* and leaves both collections as they were; a Rename that returns nil has
\* changed the filename of the one document with the id and nothing else of
\* it, and no other files document and no chunk document.
C11_RenameFrame ==
    [][res'.op = "Rename" =>
          /\ chunksColl' = chunksColl
          /\ (res'.updateErr = Nil /\ FilesWithID(res'.id) = {}) =>
                (res'.err = ErrFileNotFound /\ filesColl' = filesColl)
          /\ (res'.updateErr = Nil /\ FilesWithID(res'.id) # {}) => res'.err = Nil
          /\ res'.err = Nil =>
                /\ Cardinality(FilesWithID(res'.id)) = 1
                /\ {f \in filesColl' : f.id # res'.id}
                      = {f \in filesColl : f.id # res'.id}
                /\ \A f \in FilesWithID(res'.id) :
                      {g \in filesColl' : g.id = res'.id}
                         = {[f EXCEPT !.filename = res'.filename]}]_vars

\* The whole legacy file got a new name, next to an uploaded file.
C11_Witness ==
    /\ res.op = "Rename"
    /\ res.err = Nil
    /\ res.id = 94
    /\ res.filename = "b"
    /\ \E f \in filesColl :
          f.id = 94 /\ f.filename = "b" /\ f.length = 3 /\ f.metadata = "doc"
    /\ \E f \in filesColl : f.id \in UploadIDs
    /\ ChunksOf(94) # {}

\* An id without a files document: ErrFileNotFound.
C11_WitnessNotFound ==
    /\ res.op = "Rename"
    /\ res.updateErr = Nil
    /\ res.err = ErrFileNotFound
    /\ FilesWithID(res.id) = {}
    /\ filesColl # {}

\* The last call was a download that had opened its stream.
DownloadOpened ==
    /\ res.op \in {"DownloadToStream", "DownloadToStreamByName"}
    /\ res.opened

\* C12: when DownloadToStream or DownloadToStreamByName returns after it
\* opened a download stream, the stream is closed: after a whole copy, after
\* a copy that the sink or the stream failed, after a read deadline that
\* could not be set.
C12_DownloadCloses ==
    DownloadOpened => res.stream = "closed"

\* The sink failed at the second chunk of a download by name.
C12_Witness ==
    /\ DownloadOpened
    /\ res.op = "DownloadToStreamByName"
    /\ res.err = "SinkError"
    /\ Len(res.sink) = 2
    /\ res.stream = "closed"

\* The read deadline could not be set.
C12_WitnessDeadline ==
    /\ DownloadOpened
    /\ res.err = DeadlineError
    /\ res.stream = "closed"

\* The cursor of the stream failed at the second chunk.
C12_WitnessCursor ==
    /\ DownloadOpened
    /\ res.err = StoreError
    /\ Len(res.sink) = 2
    /\ res.stream = "closed"

\* The whole file was copied.
C12_WitnessCopied ==
    /\ DownloadOpened
    /\ res.err = Nil
    /\ res.copied = 3
    /\ res.stream = "closed"

\* The bytes of the chunks of a file, in the order of n.
RECURSIVE Concat(_)
Concat(cursor) ==
    IF cursor = <<>> THEN <<>> ELSE Head(cursor).data \o Concat(Tail(cursor))

FileBytes(id) == Concat(SortByN(ChunksOf(id)))

\* C13 as stated: when two UploadFromStream calls run at the same time on one
\* bucket, every file that was committed holds the bytes of its own source,
\* in order, and no byte of the other upload.
C13_OwnBytes ==
    \A p \in Procs :
       Uploaded(p) =>
          /\ \E f \in FilesWithID(up[p].id) : f.length = up[p].len
          /\ FileBytes(up[p].id) = SourceBytes(up[p].id, up[p].len)

\* The last call was an OpenUploadStream that index provisioning failed.
ProvisioningFailed == res.op = "OpenUploadStream" /\ res.err = StoreError

\* This step is a call of OpenUploadStream.
OpenStep == res'.op = "OpenUploadStream" /\ nextID' = nextID + 1

\* C14: after an OpenUploadStream that failed in index provisioning the
\* first-write flag is not set and the caller has no stream; the next
\* OpenUploadStream starts provisioning again, with the FindOne on the files
\* collection.
C14_FailedProvisioningRetries ==
    /\ [](ProvisioningFailed => (~firstWriteDone /\ res.stream = "none"))
    /\ [][(ProvisioningFailed /\ OpenStep) => ixLog'.findOne = ixLog.findOne + 1]_vars

\* The second attempt failed too, after the first had made the files index.
C14_Witness ==
    /\ ProvisioningFailed
    /\ ~firstWriteDone
    /\ ixLog.findOne = 2
    /\ ixLog.createdFiles = 1
    /\ ixLog.createdChunks = 0

\* C15: in a series of OpenUploadStream calls, one after the other, each of
\* the two indexes is made at most once, also when attempts fail after the
\* first index was made and are tried again.
C15_IndexesCreatedOnce ==
    /\ ixLog.createdFiles <= 1
    /\ ixLog.createdChunks <= 1
    /\ Cardinality({i \in filesIdx : i.name = "default"}) = ixLog.createdFiles
    /\ Cardinality({i \in chunksIdx : i.name = "default"}) = ixLog.createdChunks

\* Three attempts: CreateOne on the files collection failed, then succeeded
\* and CreateOne on the chunks collection failed, then succeeded.
C15_Witness ==
    /\ res.op = "OpenUploadStream"
    /\ res.err = Nil
    /\ firstWriteDone
    /\ ixLog.findOne = 3
    /\ ixLog.createFiles = 2
    /\ ixLog.createdFiles = 1
    /\ ixLog.createChunks = 2
    /\ ixLog.createdChunks = 1

\* C19: while the files collection holds a document no List and no CreateOne
\* is issued on either collection, a first-write check whose FindOne the
\* store answered succeeds and sets the flag; and once the flag is set no
\* index call is made again.
C19_PopulatedSkipsIndexes ==
    /\ [](filesColl # {} =>
            /\ ixLog.listFiles = 0 /\ ixLog.createFiles = 0
            /\ ixLog.listChunks = 0 /\ ixLog.createChunks = 0
            /\ (res.op = "OpenUploadStream" /\ res.err # StoreError) => firstWriteDone)
    /\ [][/\ filesColl # {} => (filesIdx' = filesIdx /\ chunksIdx' = chunksIdx)
          /\ firstWriteDone => (ixLog' = ixLog /\ firstWriteDone')]_vars

\* Three opens on a store with a file: one FindOne, no index.
C19_Witness ==
    /\ filesColl # {}
    /\ firstWriteDone
    /\ nextID = 4
    /\ ixLog.findOne = 1
    /\ ixLog.listFiles = 0
    /\ filesIdx = {}
    /\ chunksIdx = {}

\* The value of a key element in halves, and whether it is a number.
Halves(e) == IF e.type = "double" THEN e.val ELSE 2 * e.val
Numeric(e) == e.type \in {"int32", "int64", "double"}

\* A listed key document is equivalent to the desired one: the same fields
\* in the same order, each with a number equal to the desired one.
Equivalent(desired, key) ==
    /\ Len(key) = Len(desired)
    /\ \A i \in 1..Len(desired) :
          /\ key[i].key = desired[i].key
          /\ Numeric(key[i])
          /\ Halves(key[i]) = Halves(desired[i])

\* In this step the store answered the List on the files collection, on the
\* chunks collection.
FilesListed ==
    ixLog'.createFiles > ixLog.createFiles \/ ixLog'.listChunks > ixLog.listChunks
ChunksListed ==
    /\ ixLog'.listChunks > ixLog.listChunks
    /\ ixLog'.createChunks > ixLog.createChunks \/ res'.err # StoreError

\* C20: when the files collection is empty and the store answers the List,
\* CreateOne is issued for an index exactly when no listed index is
\* equivalent to it.
C20_CreateIffNoEquivalent ==
    [][(OpenStep /\ ~firstWriteDone /\ filesColl = {}) =>
          /\ FilesListed =>
                ((ixLog'.createFiles = ixLog.createFiles + 1)
                   <=> ~\E i \in filesIdx : Equivalent(filesModel.key, i.key))
          /\ ChunksListed =>
                ((ixLog'.createChunks = ixLog.createChunks + 1)
                   <=> ~\E i \in chunksIdx : Equivalent(chunksModel.key, i.key))
          /\ ixLog'.createFiles \in {ixLog.createFiles, ixLog.createFiles + 1}
          /\ ixLog'.createChunks \in {ixLog.createChunks, ixLog.createChunks + 1}]_vars

\* The files index was there with a double 1.0, the chunks index was not:
\* one CreateOne, on the chunks collection.
C20_Witness ==
    /\ res.op = "OpenUploadStream"
    /\ res.err = Nil
    /\ filesColl = {}
    /\ ixLog.findOne = 1
    /\ ixLog.listFiles = 1
    /\ ixLog.createFiles = 0
    /\ ixLog.createChunks = 1
    /\ \E i \in filesIdx : i.key[1].type = "double" /\ i.key[1].val = 2
    /\ \E i \in chunksIdx : i.key[2].val = -1

\* This step is the return of caller p's upload, on a source read error, on
\* an error of the stream's Write, or with no error.
UploadReturns(p) ==
    /\ up[p].pc \in {"read", "write", "close"}
    /\ up'[p].pc = "done"
    /\ \/ up[p].pc = "read" /\ up'[p].err = SourceError
       \/ up[p].pc = "write" /\ up'[p].err # Nil
       \/ up'[p].err = Nil

\* C16: when an upload returns with no error, on a source read error or on
\* an error of the stream's Write, its stream is closed or aborted.
C16_NeverLeftOpen ==
    [][\A p \in Procs :
          UploadReturns(p) => up'[p].us.state \in {"closed", "aborted"}]_vars

\* No store call of a first-write check has failed.
NoCallFailed == \A p \in Procs : up[p].err = Nil

\* Both callers have their stream.
BothOpened == \A p \in Procs : up[p].pc = "done" /\ up[p].us.state = "open"

\* C17: when two callers open an upload stream at once on a new bucket over
\* an empty store and no store call fails, CreateOne is issued at most once
\* for each index at any moment, and exactly once when both have returned.
C17_CreatedOnceInTotal ==
    (filesColl = {} /\ NoCallFailed) =>
       /\ ixLog.createFiles <= 1
       /\ ixLog.createChunks <= 1
       /\ BothOpened => (ixLog.createFiles = 1 /\ ixLog.createChunks = 1)

\* This step is an open of an upload stream that gave caller p its stream.
StreamOpened(p) == up[p].pc \in {"idle", "done"} /\ up'[p].pc = "read"

\* C18: when an upload stream is opened while the files collection is empty,
\* the filename+uploadDate index and the unique files_id+n index are there.
C18_IndexesBeforeWrite ==
    [][\A p \in Procs :
          (StreamOpened(p) /\ filesColl = {}) =>
             /\ \E i \in filesIdx' : Equivalent(filesModel.key, i.key)
             /\ \E i \in chunksIdx' :
                   Equivalent(chunksModel.key, i.key) /\ i.unique]_vars

\* This step is a call of Delete.
DeleteStep == res'.op = "Delete"

\* C21: when the deletion of the files document fails with a store error,
\* Delete returns that error and leaves the files collection as it was, but
\* it has still asked the store to delete the chunks of the id: they are
\* gone unless that deletion failed too, in which case the chunks are as they
\* were.  The chunks of other ids are never touched.
C21_StoreErrorStillDeletesChunks ==
    [][(DeleteStep /\ res'.fileDelete = StoreError) =>
          /\ res'.err = StoreError
          /\ filesColl' = filesColl
          /\ res'.chunkDelete \in {Nil, StoreError}
          /\ res'.chunkDelete = Nil =>
                chunksColl' = {c \in chunksColl : c.files_id # res'.id}
          /\ res'.chunkDelete = StoreError => chunksColl' = chunksColl]_vars

\* The deletion of the whole file's document failed; the document is there
\* and its two chunks are gone.
C21_Witness ==
    /\ res.op = "Delete"
    /\ res.id = 94
    /\ res.fileDelete = StoreError
    /\ res.err = StoreError
    /\ res.chunkDelete = Nil
    /\ res.deleted = 2
    /\ FilesWithID(94) # {}
    /\ ChunksOf(94) = {}

\* C21 as stated: Delete removes no chunk of a file whose files document is
\* in the store when it returns.
C21_Original ==
    [][(DeleteStep /\ {f \in filesColl' : f.id = res'.id} # {}) =>
          {c \in chunksColl' : c.files_id = res'.id}
             = {c \in chunksColl : c.files_id = res'.id}]_vars

\* C22: for every revision, the least int32 among them, the skip of an open
\* by name is between 0 and 2^31-1, it is r for r >= 0 and -r-1 for r < 0,
\* and the sort is ascending exactly when r >= 0.
C22_SkipAndDirection ==
    res.op = "OpenDownloadStreamByName" =>
        LET r == RevisionAsked
        IN /\ 0 <= res.skip
           /\ res.skip <= MaxInt32
           /\ r >= 0 => res.skip = r
           /\ r < 0 => res.skip = -(r + 1)
           /\ res.order \in {1, -1}
           /\ res.order = 1 <=> r >= 0

\* The revision was the least int32: 2^31-1 documents are skipped, newest
\* first.
C22_Witness ==
    /\ res.op = "OpenDownloadStreamByName"
    /\ res.nameOpts = Revision(MinInt32)
    /\ res.skip = MaxInt32
    /\ res.order = -1
    /\ res.err = ErrFileNotFound

====
